---- MODULE Spec2Model ----
(***************************************************************************)
(* A model of the calendar engine of daily_digest.py: the ICS sanitizer    *)
(* (_sanitize_ics), the timestamp normalizer (gcal_events._norm), the      *)
(* component loop of gcal_events._parse_ics and the primary/fallback       *)
(* control flow of gcal_events.                                            *)
(*                                                                         *)
(* Bytes are modelled by one-character names ("SP" is 0x20, "HT" 0x09,     *)
(* "LF" 0x0a, "CR" 0x0d, "VT" 0x0b, ":" 0x3a, "1" a decimal digit, "a" a   *)
(* letter); a bytes object is a sequence of them.                          *)
(***************************************************************************)
EXTENDS Integers, Sequences, FiniteSets, TLC

VARIABLES
    pc,         \* position of the running call
    raw,        \* _sanitize_ics: the bytes handed to the sanitizer
    lines1,     \* _sanitize_ics: sanitized_lines of the first call
    out1,       \* _sanitize_ics: bytes returned by the first call
    out2,       \* _sanitize_ics: bytes returned for the first call's output
    sanitized,  \* _parse_ics: bytes returned by its nested sanitize_ics
    test_out,   \* tests/test_calendar.py: bytes returned by its sanitize_ics
    tz,         \* TZ, the reference zone read from TIMEZONE at import
    dtv,        \* _norm: the value handed to the normalizer
    norm1,      \* _norm: the result for dtv
    norm2,      \* _norm: the result for datetime.combine(dtv, midnight)
    START,      \* gcal_events: start of the window, a datetime in TZ
    END,        \* gcal_events: end of the window, a datetime in TZ
    ics_src,    \* gcal_events: GCAL_ICS_URL ("" when unset)
    token,      \* gcal_events: GOOGLE_CALENDAR_TOKEN ("" when unset)
    primary,    \* gcal_events: how the ICS source fared in this call
    cal,        \* _parse_ics: the VEVENTs of cal.walk("vevent"), in feed order
    idx,        \* _parse_ics: number of components the loop has finished
    events,     \* _parse_ics: the events list
    ics_req,    \* gcal_events: the reads of the ICS source (GET or open)
    api_req,    \* gcal_events: the requests sent to the Calendar API
    api_items,  \* gcal_events: the items of the Calendar API's answer
    api_resp,   \* gcal_events: how the Calendar API answered ("none" before)
    result,     \* gcal_events: the list returned to the caller
    calls,      \* two calls of _parse_ics side by side: each one's locals
    env,        \* the SLACK_* environment variables ("" when unset)
    store,      \* the JSON object in the Slack token store file
    now,        \* time.time(), in seconds
    ret,        \* get_slack_access_token: what the latest call returned
    posted,     \* get_slack_access_token: refresh_token of the latest POST
    resp        \* get_slack_access_token: the answer to the latest POST

sanVars == <<raw, lines1, out1, out2>>
normVars == <<dtv, norm1, norm2>>
copyVars == <<sanitized, test_out>>
calVars == <<ics_req, START, END, ics_src, token, primary, cal, idx, events,
             api_req, api_items, api_resp, result>>
pairVars == <<calls>>
slackVars == <<env, store, now, ret, posted, resp>>
vars == <<pc, sanVars, copyVars, tz, normVars, calVars, pairVars, slackVars>>

(***************************************************************************)
(* Bounds of the model.                                                    *)
(***************************************************************************)
MaxRawLen == 4
MaxDay == 2
MaxComps == 2
MaxFolds == 3
MaxNow == 2

(***************************************************************************)
(* Bytes.                                                                  *)
(***************************************************************************)
SP == "SP"
HT == "HT"
LF == "LF"
CR == "CR"
VT == "VT"
COLON == ":"

Byte == {SP, HT, LF, CR, VT, COLON, "1", "a"}

\* bytes.strip() with no argument strips ASCII whitespace
Whitespace == {SP, HT, LF, CR, VT}

Digits == {"1"}

RawInputs == UNION {[1..n -> Byte] : n \in 0..MaxRawLen}

\* One property line written on several physical lines: a first piece that
\* starts the line, then continuation lines, each a line ending (LF, CR or
\* CRLF), one space or tab, and a further piece of the line
FirstPieces == {<<"a">>, <<"1">>}
Pieces == {<<>>, <<"a">>, <<SP, COLON>>}
Endings == {<<LF>>, <<CR>>, <<CR, LF>>}
Continuations ==
    {e \o <<w>> \o p : e \in Endings, w \in {SP, HT}, p \in Pieces}

RECURSIVE Concat(_)
Concat(ss) == IF ss = <<>> THEN <<>> ELSE ss[1] \o Concat(Tail(ss))

FoldedInputs ==
    {p \o Concat(cs) :
         p \in FirstPieces,
         cs \in UNION {[1..n -> Continuations] : n \in 0..MaxFolds}}

(***************************************************************************)
(* _sanitize_ics                                                           *)
(***************************************************************************)
RECURSIVE ReplaceCRLF(_)
\* raw.replace(b"\r\n", b"\n")
ReplaceCRLF(s) ==
    IF s = <<>> THEN <<>>
    ELSE IF Len(s) >= 2 /\ s[1] = CR /\ s[2] = LF
         THEN <<LF>> \o ReplaceCRLF(SubSeq(s, 3, Len(s)))
         ELSE <<s[1]>> \o ReplaceCRLF(Tail(s))

\* .replace(b"\r", b"\n")
ReplaceCR(s) == [i \in 1..Len(s) |-> IF s[i] = CR THEN LF ELSE s[i]]

NormalizeEndings(s) == ReplaceCR(ReplaceCRLF(s))

RECURSIVE SplitOn(_, _, _)
\* bytes.split(sep): n separators give n+1 pieces, b"" gives [b""]
SplitOn(s, sep, piece) ==
    IF s = <<>> THEN <<piece>>
    ELSE IF s[1] = sep
         THEN <<piece>> \o SplitOn(Tail(s), sep, <<>>)
         ELSE SplitOn(Tail(s), sep, Append(piece, s[1]))

Split(s, sep) == SplitOn(s, sep, <<>>)

\* a continuation test that knows the space only
StartsWithSpace(line) == line # <<>> /\ line[1] = SP

\* line.startswith(b" ") or line.startswith(b"\t")
StartsWithFold(line) == line # <<>> /\ line[1] \in {SP, HT}

RECURSIVE UnfoldLoop(_, _, _)
\* the for loop over txt.split(b"\n") and the flush of the last line
UnfoldLoop(ls, current_line, unfolded_lines) ==
    IF ls = <<>>
    THEN IF current_line # <<>>
         THEN Append(unfolded_lines, current_line)
         ELSE unfolded_lines
    ELSE IF StartsWithFold(ls[1])
         THEN UnfoldLoop(Tail(ls), current_line \o Tail(ls[1]), unfolded_lines)
         ELSE UnfoldLoop(Tail(ls), ls[1],
                         IF current_line # <<>>
                         THEN Append(unfolded_lines, current_line)
                         ELSE unfolded_lines)

UnfoldedLines(r) == UnfoldLoop(Split(NormalizeEndings(r), LF), <<>>, <<>>)

\* not line.strip()
IsBlank(line) == \A i \in 1..Len(line) : line[i] \in Whitespace

\* b":" in line
HasColon(line) == \E i \in 1..Len(line) : line[i] = COLON

\* line.split(b":", 1)[0], for a line that holds a colon
BeforeColon(line) ==
    LET k == CHOOSE i \in 1..Len(line) :
                 line[i] = COLON /\ \A j \in 1..(i - 1) : line[j] # COLON
    IN  SubSeq(line, 1, k - 1)

RECURSIVE LStrip(_)
LStrip(s) == IF s # <<>> /\ s[1] \in Whitespace THEN LStrip(Tail(s)) ELSE s

RECURSIVE RStrip(_)
RStrip(s) ==
    IF s # <<>> /\ s[Len(s)] \in Whitespace
    THEN RStrip(SubSeq(s, 1, Len(s) - 1))
    ELSE s

\* bytes.strip()
Strip(s) == RStrip(LStrip(s))

\* bytes.isdigit(): non-empty and every byte a decimal digit
IsDigit(s) == s # <<>> /\ \A i \in 1..Len(s) : s[i] \in Digits

\* a filter loop that drops blank lines only
DroppedIfBlank(line) == IsBlank(line)

\* the line is dropped by the filter loop
Dropped(line) ==
    \/ IsBlank(line)
    \/ HasColon(line) /\ IsDigit(Strip(BeforeColon(line)))

RECURSIVE FilterLinesUntilDropped(_)
\* a filter loop that a dropped line ends (break instead of continue)
FilterLinesUntilDropped(ls) ==
    IF ls = <<>> \/ Dropped(ls[1]) THEN <<>>
    ELSE <<ls[1]>> \o FilterLinesUntilDropped(Tail(ls))

RECURSIVE FilterLines(_)
FilterLines(ls) ==
    IF ls = <<>> THEN <<>>
    ELSE IF Dropped(ls[1])
         THEN FilterLines(Tail(ls))
         ELSE <<ls[1]>> \o FilterLines(Tail(ls))

\* sanitized_lines at the return statement
SanitizedLines(r) == FilterLines(UnfoldedLines(r))

RECURSIVE Join(_, _)
\* sep.join(ls)
Join(ls, sep) ==
    IF ls = <<>> THEN <<>>
    ELSE IF Len(ls) = 1 THEN ls[1]
         ELSE ls[1] \o <<sep>> \o Join(Tail(ls), sep)

_sanitize_ics(r) == Join(SanitizedLines(r), LF)

(***************************************************************************)
(* The copy of the sanitizer nested in gcal_events._parse_ics.             *)
(***************************************************************************)
\* line.startswith(b" ") or line.startswith(b"\t")
NestedContinues(line) ==
    \/ Len(line) >= 1 /\ line[1] = SP
    \/ Len(line) >= 1 /\ line[1] = HT

RECURSIVE NestedUnfoldFor(_, _, _)
\* for line in txt.split(b"\n"): the state of current_line and
\* unfolded_lines when the loop ends
NestedUnfoldFor(ls, current_line, unfolded_lines) ==
    IF Len(ls) = 0
    THEN [current_line |-> current_line, unfolded_lines |-> unfolded_lines]
    ELSE LET line == Head(ls)
         IN  IF NestedContinues(line)
             THEN NestedUnfoldFor(Tail(ls),
                       current_line \o SubSeq(line, 2, Len(line)),
                       unfolded_lines)
             ELSE IF Len(current_line) > 0
                  THEN NestedUnfoldFor(Tail(ls), line,
                            unfolded_lines \o <<current_line>>)
                  ELSE NestedUnfoldFor(Tail(ls), line, unfolded_lines)

\* the two continue statements of the second loop
NestedSkips(line) ==
    IF Len(Strip(line)) = 0 THEN TRUE
    ELSE IF HasColon(line)
         THEN IsDigit(Strip(Head(Split(line, COLON))))
         ELSE FALSE

RECURSIVE NestedFilterFor(_, _)
\* for line in unfolded_lines: sanitized_lines when the loop ends
NestedFilterFor(ls, sanitized_lines) ==
    IF Len(ls) = 0 THEN sanitized_lines
    ELSE IF NestedSkips(Head(ls))
         THEN NestedFilterFor(Tail(ls), sanitized_lines)
         ELSE NestedFilterFor(Tail(ls), sanitized_lines \o <<Head(ls)>>)

\* the sanitize_ics nested in gcal_events._parse_ics
sanitize_ics(r) ==
    LET txt == ReplaceCR(ReplaceCRLF(r))
        loop == NestedUnfoldFor(Split(txt, LF), <<>>, <<>>)
        unfolded_lines ==
            IF Len(loop.current_line) > 0
            THEN loop.unfolded_lines \o <<loop.current_line>>
            ELSE loop.unfolded_lines
    IN  Join(NestedFilterFor(unfolded_lines, <<>>), LF)

(***************************************************************************)
(* The copy of the sanitizer in tests/test_calendar.py.                    *)
(***************************************************************************)
\* line.startswith(b" ") or line.startswith(b"\t")
TestContinues(line) ==
    \/ Len(line) >= 1 /\ line[1] = SP
    \/ Len(line) >= 1 /\ line[1] = HT

RECURSIVE TestUnfoldFor(_, _, _)
\* for line in txt.split(b"\n"): the state of current_line and
\* unfolded_lines when the loop ends
TestUnfoldFor(ls, current_line, unfolded_lines) ==
    IF Len(ls) = 0
    THEN [current_line |-> current_line, unfolded_lines |-> unfolded_lines]
    ELSE LET line == Head(ls)
         IN  IF TestContinues(line)
             THEN TestUnfoldFor(Tail(ls),
                       current_line \o SubSeq(line, 2, Len(line)),
                       unfolded_lines)
             ELSE IF Len(current_line) > 0
                  THEN TestUnfoldFor(Tail(ls), line,
                            unfolded_lines \o <<current_line>>)
                  ELSE TestUnfoldFor(Tail(ls), line, unfolded_lines)

\* the two continue statements of the second loop
TestSkips(line) ==
    IF Len(Strip(line)) = 0 THEN TRUE
    ELSE IF HasColon(line)
         THEN IsDigit(Strip(Head(Split(line, COLON))))
         ELSE FALSE

RECURSIVE TestFilterFor(_, _)
\* for line in unfolded_lines: sanitized_lines when the loop ends
TestFilterFor(ls, sanitized_lines) ==
    IF Len(ls) = 0 THEN sanitized_lines
    ELSE IF TestSkips(Head(ls))
         THEN TestFilterFor(Tail(ls), sanitized_lines)
         ELSE TestFilterFor(Tail(ls), sanitized_lines \o <<Head(ls)>>)

\* the sanitize_ics of tests/test_calendar.py
test_sanitize_ics(r) ==
    LET txt == ReplaceCR(ReplaceCRLF(r))
        loop == TestUnfoldFor(Split(txt, LF), <<>>, <<>>)
        unfolded_lines ==
            IF Len(loop.current_line) > 0
            THEN loop.unfolded_lines \o <<loop.current_line>>
            ELSE loop.unfolded_lines
    IN  Join(TestFilterFor(unfolded_lines, <<>>), LF)

(***************************************************************************)
(* Time.  One tick is one hour; an instant is a number of hours since an   *)
(* epoch, in UTC.  Day d runs from hour 24*d to hour 24*d + 23, and        *)
(* datetime.time.max is the last tick of a day.                            *)
(*                                                                         *)
(* A zone gives the UTC offset before and after one transition at the UTC  *)
(* instant trans (zoneinfo.ZoneInfo with one transition; before = after is *)
(* a zone without daylight saving time).                                   *)
(***************************************************************************)
SaoPaulo == [trans |-> 0, before |-> -3, after |-> -3]
\* daylight saving time ends at local midnight: 24:00 -02:00 becomes 23:00 -03:00
SaoPauloDst == [trans |-> 26, before |-> -2, after |-> -3]
\* daylight saving time ends at 03:00 +02:00, which becomes 02:00 +01:00
BerlinDst == [trans |-> 25, before |-> 2, after |-> 1]

Zones == {SaoPaulo, SaoPauloDst, BerlinDst}

Max2(a, b) == IF a >= b THEN a ELSE b
Min2(a, b) == IF a <= b THEN a ELSE b

\* A datetime whose tzinfo is TZ: its wall-clock reading and its fold.
\* valid = FALSE stands for None.
MkDt(w, f) == [valid |-> TRUE, wall |-> w, fold |-> f]
NoneDt == [valid |-> FALSE, wall |-> 0, fold |-> 0]

\* ZoneInfo.utcoffset(dt): the offset of the wall-clock reading; in an
\* ambiguous or skipped hour fold = 0 takes the offset before the transition
utcoffset(z, d) ==
    LET shift == IF d.fold = 0 THEN Max2(z.before, z.after)
                               ELSE Min2(z.before, z.after)
    IN  IF d.wall < z.trans + shift THEN z.before ELSE z.after

\* the UTC instant a datetime in zone z denotes (dt.astimezone(UTC))
Instant(z, d) == d.wall - utcoffset(z, d)

\* ZoneInfo.fromutc: the datetime in zone z of the UTC instant u; fold = 1
\* marks the second pass through a repeated hour
FromUtc(z, u) ==
    IF u < z.trans
    THEN MkDt(u + z.before, 0)
    ELSE MkDt(u + z.after,
              IF z.after < z.before /\ u < z.trans + (z.before - z.after)
              THEN 1 ELSE 0)

\* values of a DTSTART/DTEND property (vDDDTypes.dt)
DateValue(d) == [kind |-> "date", wall |-> 24 * d, off |-> 0]
NaiveValue(w) == [kind |-> "naive", wall |-> w, off |-> 0]
AwareValue(w, o) == [kind |-> "aware", wall |-> w, off |-> o]
OtherValue == [kind |-> "other", wall |-> 0, off |-> 0]

\* datetime.combine(D, time.min): a zone-naive datetime
CombineMidnight(v) == NaiveValue(v.wall)

\* _norm with a zone-naive datetime read on the reference zone's own clock
NormNaiveAsLocal(z, v) ==
    CASE v.kind = "date" -> MkDt(v.wall, 0)
      [] v.kind = "naive" -> MkDt(v.wall, 0)
      [] v.kind = "aware" -> FromUtc(z, v.wall - v.off)
      [] OTHER -> NoneDt

\* _norm with a date-only value read as midnight UTC of that date
NormDateAsUtc(z, v) ==
    CASE v.kind = "date" -> FromUtc(z, v.wall)
      [] v.kind = "naive" -> FromUtc(z, v.wall)
      [] v.kind = "aware" -> FromUtc(z, v.wall - v.off)
      [] OTHER -> NoneDt

\* _norm with a zone-aware datetime relabelled with the reference zone
\* (replace(tzinfo=tz)) instead of converted to it
NormAwareKeepWall(z, v) ==
    CASE v.kind = "date" -> MkDt(v.wall, 0)
      [] v.kind = "naive" -> FromUtc(z, v.wall)
      [] v.kind = "aware" -> MkDt(v.wall, 0)
      [] OTHER -> NoneDt

\* gcal_events._norm
_norm(z, v) ==
    CASE v.kind = "date" -> MkDt(v.wall, 0)
      [] v.kind = "naive" -> FromUtc(z, v.wall)
      [] v.kind = "aware" -> FromUtc(z, v.wall - v.off)
      [] OTHER -> NoneDt

Days == 0..MaxDay
Hours == 0..(24 * MaxDay + 23)

NormInputs ==
    {DateValue(d) : d \in Days}
        \cup {NaiveValue(w) : w \in Hours}
        \cup {AwareValue(w, o) : w \in Hours, o \in {0, 1}}
        \cup {OtherValue}

(***************************************************************************)
(* datetime operations on values whose tzinfo is TZ.  Python compares and  *)
(* subtracts two aware datetimes that share one tzinfo object by their     *)
(* wall-clock readings, ignoring fold and offset; s1, e1 (from _norm) and  *)
(* START, END (built in __main__ with tzinfo=TZ) all carry TZ.             *)
(***************************************************************************)
\* a <= b
DtLE(a, b) == a.wall <= b.wall

\* a - b, in hours
DtMinus(a, b) == a.wall - b.wall

\* d + timedelta(hours = n): wall-clock arithmetic, the result has fold 0
PlusHours(d, n) == MkDt(d.wall + n, 0)

\* An ISO-8601 string: a wall-clock reading with a UTC offset, a bare date,
\* or None where the Calendar API names neither
Iso(w, o) == [form |-> "datetime", wall |-> w, off |-> o]
IsoDate(d) == [form |-> "date", wall |-> 24 * d, off |-> 0]
IsoNone == [form |-> "none", wall |-> 0, off |-> 0]

\* the string of the same instant written in UTC
\* (d.astimezone(UTC).isoformat())
IsoformatInUtc(z, d) == Iso(d.wall - utcoffset(z, d), 0)

\* d.isoformat()
isoformat(z, d) == Iso(d.wall, utcoffset(z, d))

\* to_iso_z relabelling the wall-clock reading as UTC without converting it
ToIsoZKeepWall(z, d) == Iso(d.wall, 0)

\* to_iso_z(d): d.astimezone(ZoneInfo("UTC")).isoformat()
to_iso_z(z, d) == Iso(Instant(z, d), 0)

\* Rank of the offset suffix in string order: "+" (0x2b) sorts before "-"
\* (0x2d), and hh:mm sorts by magnitude
OffsetRank(o) == IF o >= 0 THEN o ELSE 100 - o

\* a < b for two isoformat() strings of datetimes
IsoStrLess(a, b) ==
    \/ a.wall < b.wall
    \/ a.wall = b.wall /\ OffsetRank(a.off) < OffsetRank(b.off)

RECURSIVE InsertByStart(_, _)
\* e placed after every element whose start string is not greater
InsertByStart(sorted, e) ==
    IF sorted = <<>> THEN <<e>>
    ELSE IF IsoStrLess(e.start, sorted[1].start)
         THEN <<e>> \o sorted
         ELSE <<sorted[1]>> \o InsertByStart(Tail(sorted), e)

RECURSIVE SortFrom(_, _)
SortFrom(evs, sorted) ==
    IF evs = <<>> THEN sorted
    ELSE SortFrom(Tail(evs), InsertByStart(sorted, evs[1]))

\* events.sort(key=lambda x: x["start"]): a stable sort on the start string
SortByStart(evs) == SortFrom(evs, <<>>)

(***************************************************************************)
(* Components of the parsed calendar.                                      *)
(***************************************************************************)
AbsentValue == [kind |-> "absent", wall |-> 0, off |-> 0]

\* comp.get("rrule"): None, or a vRecur mapping part names to values
NoRule == [present |-> FALSE, parts |-> {}]
Rule(ps) == [present |-> TRUE, parts |-> ps]

Comp(summary, dtstart, dtend, rrule) ==
    [summary |-> summary, dtstart |-> dtstart, dtend |-> dtend, rrule |-> rrule]

valid_rrule_props ==
    {"FREQ", "UNTIL", "COUNT", "INTERVAL", "BYSECOND", "BYMINUTE", "BYHOUR",
     "BYDAY", "BYMONTHDAY", "BYYEARDAY", "BYWEEKNO", "BYMONTH", "BYSETPOS",
     "WKST"}

\* the parts list without the allow-list filter: every part reaches rrulestr
FilterPartsKeepAll(rr) == rr.parts

\* the parts list after the allow-list filter
FilterParts(rr) == {p \in rr.parts : p[1] \in valid_rrule_props}

\* bool(rr): None and an empty mapping are both falsy
RuleTruthy(rr) == rr.present /\ rr.parts # {}

\* the parameter names dateutil's rrule parser has a handler for
RruleParams == valid_rrule_props \cup {"BYEASTER", "BYWEEKDAY"}

FreqNames == {"YEARLY", "MONTHLY", "WEEKLY", "DAILY", "HOURLY", "MINUTELY", "SECONDLY"}
CountValue(v) == CASE v = "1" -> 1 [] v = "2" -> 2 [] v = "3" -> 3 [] OTHER -> -1

\* dateutil.rrule.rrulestr on the filtered parts: an unknown parameter
\* name, an unknown FREQ name or a COUNT that is no integer raises
\* ValueError; parts without FREQ reach rrule(**kwargs) without its required
\* freq argument, a TypeError
rrulestr(parts) ==
    IF \E p \in parts : \/ p[1] \notin RruleParams
                        \/ p[1] = "FREQ" /\ p[2] \notin FreqNames
                        \/ p[1] = "COUNT" /\ CountValue(p[2]) < 0
    THEN "ValueError"
    ELSE IF ~ \E p \in parts : p[1] = "FREQ"
         THEN "TypeError"
         ELSE "ok"

\* hours between two occurrences of the rule (FREQ=DAILY, INTERVAL 1)
Period(parts) ==
    IF <<"FREQ", "WEEKLY">> \in parts THEN 168
    ELSE IF <<"FREQ", "HOURLY">> \in parts THEN 1
    ELSE 24

\* a series that COUNT does not bound
InSeriesUnbounded(parts, k) == TRUE

\* the k-th occurrence (from 0) exists: COUNT bounds the series from its start
InSeries(parts, k) ==
    \A p \in parts : p[1] = "COUNT" => k < CountValue(p[2])

RECURSIVE BetweenExclusive(_, _, _, _, _)
\* rule.between(w0, w1) with its default inc=False: the occurrences strictly
\* between w0 and w1
BetweenExclusive(parts, dtstart_utc, w0, w1, k) ==
    LET occ == dtstart_utc + k * Period(parts)
    IN  IF occ >= w1 \/ ~InSeries(parts, k) THEN <<>>
        ELSE (IF occ > w0 THEN <<occ>> ELSE <<>>)
                 \o BetweenExclusive(parts, dtstart_utc, w0, w1, k + 1)

RECURSIVE Between(_, _, _, _, _)
\* rule.between(w0, w1, inc=True): the occurrences in [w0, w1], ascending
Between(parts, dtstart_utc, w0, w1, k) ==
    LET occ == dtstart_utc + k * Period(parts)
    IN  IF occ > w1 \/ ~InSeries(parts, k) THEN <<>>
        ELSE (IF occ >= w0 THEN <<occ>> ELSE <<>>)
                 \o Between(parts, dtstart_utc, w0, w1, k + 1)

Event(title, s, e) == [title |-> title, start |-> s, end |-> e]

\* outcome of one pass of the loop body: what it appends, and what it raises
Appends(evs) == [exc |-> "none", new |-> evs]
Raises(x) == [exc |-> x, new |-> <<>>]

RECURSIVE Occurrences(_, _, _, _, _, _, _)
\* the loop over rule.between(...)
Occurrences(z, w_start, w_end, title, s1, e1, occs) ==
    IF occs = <<>> THEN <<>>
    ELSE LET occ_local == FromUtc(z, occs[1])
             dur == DtMinus(e1, s1)
             oe == PlusHours(occ_local, dur)
         IN  (IF DtLE(occ_local, w_end) /\ DtLE(w_start, oe)
              THEN <<Event(title, isoformat(z, occ_local), isoformat(z, oe))>>
              ELSE <<>>)
                 \o Occurrences(z, w_start, w_end, title, s1, e1, Tail(occs))

\* the recurring branch of the loop body
Expand(z, w_start, w_end, title, s1, e1, rr) ==
    LET parts == FilterParts(rr)
        outcome == rrulestr(parts)
        dtstart_utc == Instant(z, s1)
        w0 == Instant(z, w_start)
        w1 == Instant(z, w_end)
    IN  IF parts = {} THEN Appends(<<>>)
        ELSE IF outcome = "ValueError" THEN Appends(<<>>)
        ELSE IF outcome # "ok" THEN Raises(outcome)
        ELSE Appends(Occurrences(z, w_start, w_end, title, s1, e1,
                                 Between(parts, dtstart_utc, w0, w1, 0)))

\* the non-recurring branch of the loop body
Single(z, w_start, w_end, title, s1, e1) ==
    IF DtLE(s1, w_end) /\ DtLE(w_start, e1)
    THEN Appends(<<Event(title, isoformat(z, s1), isoformat(z, e1))>>)
    ELSE Appends(<<>>)

\* one pass of the loop over cal.walk("vevent"); "(sem titulo)" is the
\* source's placeholder title, written without its accent
ProcessComponent(z, w_start, w_end, comp) ==
    LET title == IF comp.summary = "" THEN "(sem titulo)" ELSE comp.summary
        ds == comp.dtstart
        de == comp.dtend
        rr == comp.rrule
        s1 == _norm(z, ds)
        e1 == IF de.kind # "absent" THEN _norm(z, de)
              ELSE IF s1.valid THEN PlusHours(s1, 1) ELSE NoneDt
    IN  IF ds.kind = "absent" THEN Appends(<<>>)
        ELSE IF ~(s1.valid /\ e1.valid) THEN Appends(<<>>)
        ELSE IF ~RuleTruthy(rr) THEN Single(z, w_start, w_end, title, s1, e1)
        ELSE Expand(z, w_start, w_end, title, s1, e1, rr)

(***************************************************************************)
(* The Calendar API's answer.                                              *)
(***************************************************************************)
Item(summary, sdt, sd, edt, ed) ==
    [summary |-> summary, start_dateTime |-> sdt, start_date |-> sd,
     end_dateTime |-> edt, end_date |-> ed]

\* a or b, for two optional strings
OrElse(a, b) == IF a.form # "none" THEN a ELSE b

\* the loop over r.json().get("items", [])
MapItems(items) ==
    [i \in 1..Len(items) |->
        Event(IF items[i].summary = "" THEN "(sem titulo)" ELSE items[i].summary,
              OrElse(items[i].start_dateTime, items[i].start_date),
              OrElse(items[i].end_dateTime, items[i].end_date))]

(***************************************************************************)
(* Inputs of gcal_events.                                                  *)
(***************************************************************************)
\* instants around the edges of the windows of days 0 and 1
EventHours == {2, 3} \cup (24..27)

StartValues ==
    {AwareValue(h, 0) : h \in EventHours}
        \cup {AwareValue(4, 1), NaiveValue(3), DateValue(0), DateValue(1)}

RuleInputs ==
    {Rule({}),
     Rule({<<"X-FOO", "1">>}),
     Rule({<<"FREQ", "BOGUS">>}),
     Rule({<<"COUNT", "2">>}),
     Rule({<<"FREQ", "DAILY">>}),
     Rule({<<"FREQ", "DAILY">>, <<"COUNT", "2">>}),
     Rule({<<"FREQ", "DAILY">>, <<"X-FOO", "1">>})}

Components ==
    {Comp("Standup", s, AbsentValue, NoRule) : s \in StartValues}
        \cup {Comp("Review", AwareValue(h, 0), AwareValue(h, 0), NoRule) : h \in {2, 3, 26}}
        \cup {Comp("", AwareValue(3, 0), AbsentValue, NoRule),
              Comp("Standup", AbsentValue, AbsentValue, NoRule),
              Comp("Standup", OtherValue, AbsentValue, NoRule)}
        \cup {Comp("Daily", AwareValue(h, 0), AbsentValue, r) :
                  h \in {3}, r \in RuleInputs}

Feeds == UNION {[1..n -> Components] : n \in 0..MaxComps}

\* DTSTART values of the series feeds: instants at the start of day 0, whose
\* daily repetitions meet the edges of the windows and the repeated hours
SeriesStarts ==
    {AwareValue(h, 0) : h \in 0..3}
        \cup {AwareValue(4, 1), NaiveValue(3), DateValue(0)}

\* the value n hours (for a date, n days) after v
Shifted(v, n) ==
    IF v.kind = "date" THEN [v EXCEPT !.wall = @ + 24 * n]
    ELSE [v EXCEPT !.wall = @ + n]

\* DTEND values for a DTSTART: none, the start itself, later the same day,
\* the day after, and (for a datetime) one hour before the start
SeriesEnds(s) ==
    IF s.kind = "date"
    THEN {AbsentValue, s, Shifted(s, 1)}
    ELSE {AbsentValue, s, Shifted(s, 2), Shifted(s, 25), Shifted(s, -1)}

SeriesRules ==
    {NoRule,
     Rule({<<"FREQ", "DAILY">>}),
     Rule({<<"FREQ", "DAILY">>, <<"COUNT", "2">>}),
     Rule({<<"FREQ", "DAILY">>, <<"X-FOO", "1">>}),
     Rule({<<"FREQ", "HOURLY">>}),
     Rule({<<"FREQ", "HOURLY">>, <<"COUNT", "3">>}),
     Rule({<<"FREQ", "WEEKLY">>})}

\* a meeting of one hour in the afternoon of day 0: DTSTART 14:00Z,
\* DTEND 15:00Z, SUMMARY Standup, no RRULE
Standup1400Z == Comp("Standup", AwareValue(14, 0), AwareValue(15, 0), NoRule)

SeriesComponents ==
    UNION {{Comp("Sync", s, e, rr) : e \in SeriesEnds(s), rr \in SeriesRules} :
               s \in SeriesStarts}
        \cup {Standup1400Z}

\* a feed of one VEVENT
SeriesFeeds == {<<c>> : c \in SeriesComponents}

SeriesSources == {"https://calendar/series.ics", "/home/me/series.ics"}

\* the calendars the text served by a source can parse to
FeedsOf(src) == IF src \in SeriesSources THEN SeriesFeeds ELSE Feeds

\* the bytes a source serves: nothing, blank lines only, continuation lines
\* only, a digit-named line only, and a feed with content (whose VEVENTs the
\* byte alphabet does not spell out)
FeedBytes ==
    {<<>>,
     <<LF, CR, LF>>,
     <<SP, LF, HT>>,
     <<"1", COLON, "a">>,
     <<"a", COLON, "1">>}

ApiBodies ==
    {<<>>,
     <<Item("Planning", Iso(11, -3), IsoNone, Iso(12, -3), IsoNone)>>,
     <<Item("Planning", Iso(11, -3), IsoNone, Iso(12, -3), IsoNone),
       Item("", IsoNone, IsoDate(0), IsoNone, IsoDate(1))>>}

PairIdle == calls = <<>>

\* a Slack environment with nothing set, the store of an absent file, and
\* the marks of a call and a POST that have not happened
NoEnv ==
    [SLACK_USER_TOKEN |-> "", SLACK_CLIENT_ID |-> "",
     SLACK_CLIENT_SECRET |-> "", SLACK_REFRESH_TOKEN |-> ""]
EmptyStore == [access_token |-> "", refresh_token |-> "", expires_at |-> 0]
NoRet == [token |-> "", source |-> "none"]
NoResp ==
    [ok |-> FALSE, access_token |-> "", refresh_token |-> "",
     has_expires_in |-> FALSE, expires_in |-> 0]

SlackIdle ==
    /\ env = NoEnv /\ store = EmptyStore /\ now = 0
    /\ ret = NoRet /\ posted = "" /\ resp = NoResp

SanIdle == raw = <<>> /\ lines1 = <<>> /\ out1 = <<>> /\ out2 = <<>>
CopyIdle == sanitized = <<>> /\ test_out = <<>>
NormIdle == dtv = OtherValue /\ norm1 = NoneDt /\ norm2 = NoneDt
CalIdle ==
    /\ ics_req = <<>>
    /\ START = NoneDt /\ END = NoneDt /\ ics_src = "" /\ token = ""
    /\ primary = "pending" /\ cal = <<>> /\ idx = 0 /\ events = <<>>
    /\ api_req = <<>> /\ api_items = <<>> /\ api_resp = "none" /\ result = <<>>

(***************************************************************************)
(* The sanitizer applied to a feed, and again to its own output.           *)
(***************************************************************************)
InitSan ==
    /\ pc = "san_start"
    /\ raw \in RawInputs
    /\ lines1 = <<>>
    /\ out1 = <<>>
    /\ out2 = <<>>
    /\ tz = SaoPaulo
    /\ NormIdle
    /\ CalIdle
    /\ CopyIdle
    /\ PairIdle
    /\ SlackIdle

Sanitize ==
    /\ pc = "san_start"
    /\ lines1' = SanitizedLines(raw)
    /\ out1' = _sanitize_ics(raw)
    /\ pc' = "san_once"
    /\ UNCHANGED <<raw, out2, tz, copyVars, pairVars, slackVars, normVars,
                   calVars>>

SanitizeAgain ==
    /\ pc = "san_once"
    /\ out2' = _sanitize_ics(out1)
    /\ pc' = "san_twice"
    /\ UNCHANGED <<raw, lines1, out1, tz, copyVars, pairVars, slackVars,
                   normVars, calVars>>

NextSan == Sanitize \/ SanitizeAgain

SpecSan == InitSan /\ [][NextSan]_vars

(***************************************************************************)
(* The sanitizer applied to one folded property line.                      *)
(***************************************************************************)
InitFold ==
    /\ pc = "san_start"
    /\ raw \in FoldedInputs
    /\ lines1 = <<>>
    /\ out1 = <<>>
    /\ out2 = <<>>
    /\ tz = SaoPaulo
    /\ NormIdle
    /\ CalIdle
    /\ CopyIdle
    /\ PairIdle
    /\ SlackIdle

SpecFold == InitFold /\ [][NextSan]_vars

(***************************************************************************)
(* The three copies of the sanitizer applied to the same bytes.            *)
(***************************************************************************)
InitCopies ==
    /\ pc = "copies_start"
    /\ raw \in RawInputs \cup FoldedInputs
    /\ lines1 = <<>>
    /\ out1 = <<>>
    /\ out2 = <<>>
    /\ tz = SaoPaulo
    /\ NormIdle
    /\ CalIdle
    /\ CopyIdle
    /\ PairIdle
    /\ SlackIdle

SanitizeCopies ==
    /\ pc = "copies_start"
    /\ out1' = _sanitize_ics(raw)
    /\ sanitized' = sanitize_ics(raw)
    /\ test_out' = test_sanitize_ics(raw)
    /\ pc' = "copies_done"
    /\ UNCHANGED <<raw, lines1, out2, tz, pairVars, slackVars, normVars,
                   calVars>>

NextCopies == SanitizeCopies

SpecCopies == InitCopies /\ [][NextCopies]_vars

\* C1: sanitizing the sanitizer's own output changes nothing, for every input
C1_Idempotent == pc = "san_twice" => out2 = out1

\* C2: every logical line of the sanitizer's output is non-empty and does
\* not start with a space or a horizontal tab
C2_LinesWellFormed ==
    pc # "san_start" =>
        \A i \in 1..Len(lines1) :
            lines1[i] # <<>> /\ lines1[i][1] \notin {SP, HT}

(***************************************************************************)
(* The normalizer applied to a property value and, for a date-only value,  *)
(* to that date combined with midnight.                                    *)
(***************************************************************************)
InitNorm ==
    /\ pc = "norm_start"
    /\ tz \in Zones
    /\ dtv \in NormInputs
    /\ norm1 = NoneDt
    /\ norm2 = NoneDt
    /\ SanIdle
    /\ CalIdle
    /\ CopyIdle
    /\ PairIdle
    /\ SlackIdle

Normalize ==
    /\ pc = "norm_start"
    /\ norm1' = _norm(tz, dtv)
    /\ pc' = "norm_once"
    /\ UNCHANGED <<sanVars, tz, copyVars, pairVars, slackVars, dtv, norm2,
                   calVars>>

NormalizeCombined ==
    /\ pc = "norm_once"
    /\ dtv.kind = "date"
    /\ norm2' = _norm(tz, CombineMidnight(dtv))
    /\ pc' = "norm_both"
    /\ UNCHANGED <<sanVars, tz, copyVars, pairVars, slackVars, dtv, norm1,
                   calVars>>

NextNorm == Normalize \/ NormalizeCombined

SpecNorm == InitNorm /\ [][NextNorm]_vars

\* C3 as stated: a date-only value and that date combined with midnight
\* normalize to the same instant
C3_SameInstant ==
    pc = "norm_both" => Instant(tz, norm1) = Instant(tz, norm2)

\* C3 as amended: a date-only value normalizes to midnight of that date on
\* the reference zone's clock, the date combined with midnight to midnight
\* UTC of that date; the first instant is the second minus the zone's UTC
\* offset at that local midnight, so they agree only where the offset is 0
C3_OffsetApart ==
    pc = "norm_both" =>
        /\ norm1.valid /\ norm2.valid
        /\ norm1.wall = dtv.wall
        /\ Instant(tz, norm2) = dtv.wall
        /\ Instant(tz, norm1) = Instant(tz, norm2) - utcoffset(tz, norm1)

C3_Witness ==
    /\ pc = "norm_both"
    /\ utcoffset(tz, norm1) # 0
    /\ Instant(tz, norm1) # Instant(tz, norm2)

(***************************************************************************)
(* gcal_events(START, END), called as __main__ calls it: the window is the *)
(* report day from time.min to time.max on TZ's clock.                     *)
(***************************************************************************)
ReportDays == 0..1

InitCal ==
    /\ pc = "gcal_start"
    /\ tz \in Zones
    /\ \E report_day \in ReportDays :
           /\ START = MkDt(24 * report_day, 0)
           /\ END = MkDt(24 * report_day + 23, 0)
    /\ ics_src \in {"", "https://calendar/basic.ics", "/home/me/basic.ics"}
    /\ token \in {"", "ya29"}
    /\ primary = "pending"
    /\ cal = <<>>
    /\ idx = 0
    /\ events = <<>>
    /\ ics_req = <<>>
    /\ api_req = <<>>
    /\ api_items = <<>>
    /\ api_resp = "none"
    /\ result = <<>>
    /\ SanIdle
    /\ NormIdle
    /\ CopyIdle
    /\ PairIdle
    /\ SlackIdle

\* ics_src.startswith(("http://", "https://"))
IsUrl(src) ==
    src \in {"https://calendar/basic.ics", "https://calendar/series.ics"}

\* the except clause of the ICS block, and every path of it that falls
\* through to the Calendar API
ToFallback(why) ==
    /\ primary' = why
    /\ pc' = "fallback"

\* GCAL_ICS_URL is unset
PrimaryUnset ==
    /\ pc = "gcal_start"
    /\ ics_src = ""
    /\ ToFallback("unset")
    /\ UNCHANGED <<sanVars, tz, copyVars, pairVars, slackVars, normVars,
                   ics_req, START, END, ics_src, token, cal, idx, events,
                   api_req, api_items, api_resp, result>>

\* requests.get(ics_src): raises, or answers non-2xx, or with a content type
\* that is not text/calendar, or with the feed (resp.content)
FetchUrl ==
    /\ pc = "gcal_start"
    /\ ics_src # "" /\ IsUrl(ics_src)
    /\ \/ ToFallback("fetch_exception") /\ UNCHANGED raw
       \/ ToFallback("http_error") /\ UNCHANGED raw
       \/ ToFallback("bad_content_type") /\ UNCHANGED raw
       \/ pc' = "parse" /\ raw' \in FeedBytes /\ UNCHANGED primary
    /\ ics_req' = Append(ics_req, ics_src)
    /\ UNCHANGED <<lines1, out1, out2, tz, copyVars, pairVars, slackVars,
                   normVars, START, END, ics_src, token, cal, idx, events,
                   api_req, api_items, api_resp, result>>

\* open(ics_src, "rb"): raises, or gives the feed (f.read())
ReadFile ==
    /\ pc = "gcal_start"
    /\ ics_src # "" /\ ~IsUrl(ics_src)
    /\ \/ ToFallback("fetch_exception") /\ UNCHANGED raw
       \/ pc' = "parse" /\ raw' \in FeedBytes /\ UNCHANGED primary
    /\ ics_req' = Append(ics_req, ics_src)
    /\ UNCHANGED <<lines1, out1, out2, tz, copyVars, pairVars, slackVars,
                   normVars, START, END, ics_src, token, cal, idx, events,
                   api_req, api_items, api_resp, result>>

\* sanitized = sanitize_ics(raw) is empty: Calendar.from_ical(b"") finds no
\* component where exactly one is required and raises ValueError
ParseEmpty ==
    /\ pc = "parse"
    /\ sanitize_ics(raw) = <<>>
    /\ sanitized' = sanitize_ics(raw)
    /\ ToFallback("parse_exception")
    /\ UNCHANGED <<sanVars, test_out, tz, pairVars, slackVars, normVars,
                   ics_req, START, END, ics_src, token, cal, idx, events,
                   api_req, api_items, api_resp, result>>

\* Calendar.from_ical(sanitized) raises on the text it is given
ParseRaises ==
    /\ pc = "parse"
    /\ sanitize_ics(raw) # <<>>
    /\ sanitized' = sanitize_ics(raw)
    /\ ToFallback("parse_exception")
    /\ UNCHANGED <<sanVars, test_out, tz, pairVars, slackVars, normVars,
                   ics_req, START, END, ics_src, token, cal, idx, events,
                   api_req, api_items, api_resp, result>>

\* Calendar.from_ical(sanitized) gives a calendar
ParseIcs ==
    /\ pc = "parse"
    /\ sanitize_ics(raw) # <<>>
    /\ sanitized' = sanitize_ics(raw)
    /\ cal' \in FeedsOf(ics_src)
    /\ idx' = 0
    /\ events' = <<>>
    /\ pc' = "walk"
    /\ UNCHANGED <<sanVars, test_out, tz, pairVars, slackVars, normVars,
                   ics_req, START, END, ics_src, token, primary, api_req,
                   api_items, api_resp, result>>

\* one pass of the loop over cal.walk("vevent"); an exception leaves
\* _parse_ics, whose events list is lost, and is caught in gcal_events
WalkComponent ==
    /\ pc = "walk"
    /\ idx < Len(cal)
    /\ LET done == ProcessComponent(tz, START, END, cal[idx + 1])
       IN  IF done.exc = "none"
           THEN /\ events' = events \o done.new
                /\ idx' = idx + 1
                /\ UNCHANGED <<pc, primary>>
           ELSE /\ ToFallback("component_exception")
                /\ UNCHANGED <<events, idx>>
    /\ UNCHANGED <<sanVars, tz, copyVars, pairVars, slackVars, normVars,
                   ics_req, START, END, ics_src, token, cal, api_req,
                   api_items, api_resp, result>>

\* a return that hands an empty primary result over to the Calendar API
SortAndReturnUnlessEmpty ==
    /\ pc = "walk"
    /\ idx = Len(cal)
    /\ result' = SortByStart(events)
    /\ primary' = "ok"
    /\ pc' = IF events = <<>> THEN "fallback" ELSE "returned"
    /\ UNCHANGED <<sanVars, tz, copyVars, pairVars, slackVars, normVars,
                   ics_req, START, END, ics_src, token, cal, idx, events,
                   api_req, api_items, api_resp>>

\* the loop is over: events.sort(...); return events
SortAndReturn ==
    /\ pc = "walk"
    /\ idx = Len(cal)
    /\ result' = SortByStart(events)
    /\ primary' = "ok"
    /\ pc' = "returned"
    /\ UNCHANGED <<sanVars, tz, copyVars, pairVars, slackVars, normVars,
                   ics_req, START, END, ics_src, token, cal, idx, events,
                   api_req, api_items, api_resp>>

\* if not token: return []
FallbackNoToken ==
    /\ pc = "fallback"
    /\ token = ""
    /\ result' = <<>>
    /\ pc' = "returned"
    /\ UNCHANGED <<sanVars, tz, copyVars, pairVars, slackVars, normVars,
                   ics_req, START, END, ics_src, token, primary, cal, idx,
                   events, api_req, api_items, api_resp>>

\* requests.get(".../calendars/primary/events", params=...)
FallbackRequest ==
    /\ pc = "fallback"
    /\ token # ""
    /\ api_req' = Append(api_req, [timeMin |-> to_iso_z(tz, START),
                                   timeMax |-> to_iso_z(tz, END)])
    /\ pc' = "api_wait"
    /\ UNCHANGED <<sanVars, tz, copyVars, pairVars, slackVars, normVars,
                   ics_req, START, END, ics_src, token, primary, cal, idx,
                   events, api_items, api_resp, result>>

\* the request raises (no connection, timeout), or the 2xx answer's body is
\* not JSON and r.json() raises: nothing in gcal_events catches either
ApiRaises ==
    /\ pc = "api_wait"
    /\ pc' = "raised"
    /\ UNCHANGED <<sanVars, tz, copyVars, pairVars, slackVars, normVars,
                   calVars>>

\* a non-2xx answer after which the call returns what the ICS path had
\* collected
ApiNotOkKeeping ==
    /\ pc = "api_wait"
    /\ api_resp' = "not_ok"
    /\ result' = events
    /\ pc' = "returned"
    /\ UNCHANGED <<sanVars, tz, copyVars, pairVars, slackVars, normVars,
                   ics_req, START, END, ics_src, token, primary, cal, idx,
                   events, api_req, api_items>>

\* if not r.ok: return []
ApiNotOk ==
    /\ pc = "api_wait"
    /\ api_resp' = "not_ok"
    /\ result' = <<>>
    /\ pc' = "returned"
    /\ UNCHANGED <<sanVars, tz, copyVars, pairVars, slackVars, normVars,
                   ics_req, START, END, ics_src, token, primary, cal, idx,
                   events, api_req, api_items>>

\* the 2xx answer appended to what the ICS path had collected
ApiOkMerging ==
    /\ pc = "api_wait"
    /\ \E body \in ApiBodies :
           /\ api_items' = body
           /\ result' = events \o MapItems(body)
    /\ api_resp' = "ok"
    /\ pc' = "returned"
    /\ UNCHANGED <<sanVars, tz, copyVars, pairVars, slackVars, normVars,
                   ics_req, START, END, ics_src, token, primary, cal, idx,
                   events, api_req>>

\* a 2xx answer: its items, mapped to title/start/end, are returned
ApiOk ==
    /\ pc = "api_wait"
    /\ \E body \in ApiBodies :
           /\ api_items' = body
           /\ result' = MapItems(body)
    /\ api_resp' = "ok"
    /\ pc' = "returned"
    /\ UNCHANGED <<sanVars, tz, copyVars, pairVars, slackVars, normVars,
                   ics_req, START, END, ics_src, token, primary, cal, idx,
                   events, api_req>>

NextCal ==
    \/ PrimaryUnset
    \/ FetchUrl
    \/ ReadFile
    \/ ParseEmpty
    \/ ParseRaises
    \/ ParseIcs
    \/ WalkComponent
    \/ SortAndReturn
    \/ FallbackNoToken
    \/ FallbackRequest
    \/ ApiRaises
    \/ ApiNotOk
    \/ ApiOk

SpecCal == InitCal /\ [][NextCal]_vars

(***************************************************************************)
(* gcal_events on the feeds of one VEVENT, single or recurring, for the    *)
(* report days from the day the series start.                              *)
(***************************************************************************)
InitRec ==
    /\ pc = "gcal_start"
    /\ tz \in Zones
    /\ \E report_day \in Days :
           /\ START = MkDt(24 * report_day, 0)
           /\ END = MkDt(24 * report_day + 23, 0)
    /\ ics_src \in {""} \cup SeriesSources
    /\ token \in {"", "ya29"}
    /\ primary = "pending"
    /\ cal = <<>>
    /\ idx = 0
    /\ events = <<>>
    /\ ics_req = <<>>
    /\ api_req = <<>>
    /\ api_items = <<>>
    /\ api_resp = "none"
    /\ result = <<>>
    /\ SanIdle
    /\ NormIdle
    /\ CopyIdle
    /\ PairIdle
    /\ SlackIdle

SpecRec == InitRec /\ [][NextCal]_vars

(***************************************************************************)
(* Two calls of _parse_ics in one process, their steps in any order: one   *)
(* after the other, or interleaved as two threads would run them.  TZ is   *)
(* the one module global they read; the feed, the window and the events    *)
(* list are parameters and locals of each call.                            *)
(***************************************************************************)
Calls == {1, 2}

PairComponents ==
    {Comp("Standup", AwareValue(3, 0), AbsentValue, NoRule),
     Comp("Daily", AwareValue(3, 0), AbsentValue, Rule({<<"FREQ", "DAILY">>})),
     Comp("Daily", AwareValue(3, 0), AbsentValue, Rule({<<"COUNT", "2">>}))}

PairFeeds == UNION {[1..n -> PairComponents] : n \in 0..MaxComps}

\* the locals of a call that has parsed its feed and reached the loop
Call(feed, report_day) ==
    [pc |-> "walk",
     START |-> MkDt(24 * report_day, 0),
     END |-> MkDt(24 * report_day + 23, 0),
     cal |-> feed,
     idx |-> 0,
     events |-> <<>>,
     result |-> <<>>]

InitPair ==
    /\ pc = "pair"
    /\ tz \in Zones
    /\ calls \in [Calls -> {Call(f, d) : f \in PairFeeds, d \in ReportDays}]
    /\ SanIdle
    /\ NormIdle
    /\ CalIdle
    /\ CopyIdle
    /\ SlackIdle

\* a list that the calls share: call i finds in it what the other call has
\* appended
EventsOfEitherCall(cs, i) == cs[i].events \o cs[3 - i].events

\* events = [] at the top of _parse_ics: the list call i appends to is its
\* own
EventsOf(cs, i) == cs[i].events

\* one pass of call i's loop over cal.walk("vevent")
PairWalk(i) ==
    /\ calls[i].pc = "walk"
    /\ calls[i].idx < Len(calls[i].cal)
    /\ LET c == calls[i]
           done == ProcessComponent(tz, c.START, c.END, c.cal[c.idx + 1])
       IN  calls' =
               [calls EXCEPT ![i] =
                   IF done.exc = "none"
                   THEN [c EXCEPT !.events = EventsOf(calls, i) \o done.new,
                                  !.idx = c.idx + 1]
                   ELSE [c EXCEPT !.pc = "raised"]]
    /\ UNCHANGED <<pc, sanVars, copyVars, tz, normVars, calVars, slackVars>>

\* call i's loop is over: events.sort(...); return events
PairReturn(i) ==
    /\ calls[i].pc = "walk"
    /\ calls[i].idx = Len(calls[i].cal)
    /\ calls' = [calls EXCEPT ![i].result = SortByStart(EventsOf(calls, i)),
                              ![i].pc = "returned"]
    /\ UNCHANGED <<pc, sanVars, copyVars, tz, normVars, calVars, slackVars>>

NextPair == \E i \in Calls : PairWalk(i) \/ PairReturn(i)

SpecPair == InitPair /\ [][NextPair]_vars

(***************************************************************************)
(* get_slack_access_token, called again and again while the clock runs.    *)
(* The clock counts seconds from the first call.  "" stands for an unset   *)
(* environment variable, an absent key and None alike: the code tests      *)
(* them all for truth only.                                                *)
(***************************************************************************)
\* store.get("expires_at", 0) > now + 60
ExpiryMargin == 60
\* resp.get("expires_in", 12 * 60 * 60)
DefaultExpiresIn == 43200

SlackEnvs ==
    {[SLACK_USER_TOKEN |-> u, SLACK_CLIENT_ID |-> c[1],
      SLACK_CLIENT_SECRET |-> c[2], SLACK_REFRESH_TOKEN |-> r] :
         u \in {"", "xoxp-env"},
         c \in {<<"cid", "secret">>, <<"", "secret">>, <<"cid", "">>},
         r \in {"", "r-env"}}

\* what _load_store finds before the first call: no file, or the tokens an
\* earlier run has left
InitStores ==
    {EmptyStore,
     [access_token |-> "xoxe-old", refresh_token |-> "r-old",
      expires_at |-> ExpiryMargin + 1],
     [access_token |-> "xoxe-old", refresh_token |-> "r-old",
      expires_at |-> ExpiryMargin],
     [access_token |-> "", refresh_token |-> "r-old",
      expires_at |-> ExpiryMargin + 1],
     [access_token |-> "xoxe-old", refresh_token |-> "", expires_at |-> 0]}

\* answers of oauth.v2.access with ok true; access_token is
\* resp.get("access_token") or resp.get("token")
OkResponses ==
    {[ok |-> TRUE, access_token |-> a, refresh_token |-> r,
      has_expires_in |-> h, expires_in |-> IF h THEN e ELSE 0] :
         a \in {"", "xoxe-new"},
         r \in {"", "r-new"},
         h \in BOOLEAN,
         e \in {ExpiryMargin, ExpiryMargin + 1}}

InitSlack ==
    /\ pc = "slack_idle"
    /\ env \in SlackEnvs
    /\ store \in InitStores
    /\ now = 0
    /\ ret = NoRet
    /\ posted = ""
    /\ resp = NoResp
    /\ tz = SaoPaulo
    /\ SanIdle
    /\ NormIdle
    /\ CalIdle
    /\ CopyIdle
    /\ PairIdle

\* a stored token that counts as valid as soon as it has not expired
StoredTokenUnexpired(st, t) ==
    st.access_token # "" /\ st.expires_at > t

\* store.get("access_token") and store.get("expires_at", 0) > now + 60
StoredTokenValid(st, t) ==
    st.access_token # "" /\ st.expires_at > t + ExpiryMargin

\* a refresh token taken from the environment first
RefreshTokenEnvFirst(st, e) ==
    IF e.SLACK_REFRESH_TOKEN # "" THEN e.SLACK_REFRESH_TOKEN
    ELSE st.refresh_token

\* rtok = store.get("refresh_token") or os.getenv("SLACK_REFRESH_TOKEN")
RefreshToken(st, e) ==
    IF st.refresh_token # "" THEN st.refresh_token ELSE e.SLACK_REFRESH_TOKEN

\* cid and csec and rtok
CanRefresh(st, e) ==
    /\ e.SLACK_CLIENT_ID # ""
    /\ e.SLACK_CLIENT_SECRET # ""
    /\ RefreshToken(st, e) # ""

\* the code is past the env token and the stored token
MustRefresh ==
    /\ pc = "slack_idle"
    /\ env.SLACK_USER_TOKEN = ""
    /\ ~StoredTokenValid(store, now)

\* exp_in = int(resp.get("expires_in", 12 * 60 * 60))
ExpiresIn(r) == IF r.has_expires_in THEN r.expires_in ELSE DefaultExpiresIn

\* the object handed to _save_store at time t after answer r to a POST
\* that sent rtok
NewStore(r, rtok, t) ==
    [access_token |-> r.access_token,
     refresh_token |-> IF r.refresh_token # "" THEN r.refresh_token ELSE rtok,
     expires_at |-> t + ExpiresIn(r)]

\* _save_store: the file holds data; or open() raised and the file is as
\* it was; or the write raised after open() had truncated the file, which
\* _load_store then reads as {}.  Either exception is swallowed.
SaveOutcomes(st, data) == {data, st, EmptyStore}

\* if user_token: return user_token, "env"
UseEnvToken ==
    /\ pc = "slack_idle"
    /\ env.SLACK_USER_TOKEN # ""
    /\ ret' = [token |-> env.SLACK_USER_TOKEN, source |-> "env"]
    /\ pc' = "slack_returned"
    /\ UNCHANGED <<env, store, now, posted, resp>>
    /\ UNCHANGED <<sanVars, copyVars, tz, normVars, calVars, pairVars>>

\* return store["access_token"], "store"
UseStoredToken ==
    /\ pc = "slack_idle"
    /\ env.SLACK_USER_TOKEN = ""
    /\ StoredTokenValid(store, now)
    /\ ret' = [token |-> store.access_token, source |-> "store"]
    /\ pc' = "slack_returned"
    /\ UNCHANGED <<env, store, now, posted, resp>>
    /\ UNCHANGED <<sanVars, copyVars, tz, normVars, calVars, pairVars>>

\* if not (cid and csec and rtok): return None, "missing"
CredentialsMissing ==
    /\ MustRefresh
    /\ ~CanRefresh(store, env)
    /\ ret' = [token |-> "", source |-> "missing"]
    /\ pc' = "slack_returned"
    /\ UNCHANGED <<env, store, now, posted, resp>>
    /\ UNCHANGED <<sanVars, copyVars, tz, normVars, calVars, pairVars>>

\* requests.post(...) raises, or the answer's body is not JSON and .json()
\* raises: nothing in get_slack_access_token catches either
PostRaises ==
    /\ MustRefresh
    /\ CanRefresh(store, env)
    /\ posted' = RefreshToken(store, env)
    /\ pc' = "raised"
    /\ UNCHANGED <<env, store, now, ret, resp>>
    /\ UNCHANGED <<sanVars, copyVars, tz, normVars, calVars, pairVars>>

\* a refusal that empties the store
RefreshNotOkClearing ==
    /\ MustRefresh
    /\ CanRefresh(store, env)
    /\ posted' = RefreshToken(store, env)
    /\ resp' = NoResp
    /\ store' = EmptyStore
    /\ ret' = [token |-> "", source |-> "refresh-failed"]
    /\ pc' = "slack_returned"
    /\ UNCHANGED <<env, now>>
    /\ UNCHANGED <<sanVars, copyVars, tz, normVars, calVars, pairVars>>

\* if not resp.get("ok"): return None, "refresh-failed"
RefreshNotOk ==
    /\ MustRefresh
    /\ CanRefresh(store, env)
    /\ posted' = RefreshToken(store, env)
    /\ resp' = NoResp
    /\ ret' = [token |-> "", source |-> "refresh-failed"]
    /\ pc' = "slack_returned"
    /\ UNCHANGED <<env, store, now>>
    /\ UNCHANGED <<sanVars, copyVars, tz, normVars, calVars, pairVars>>

\* the answer is ok: _save_store({...}); return atok, "refreshed".  The
\* clock is read again for expires_at, after the POST has been answered.
Refreshed ==
    /\ MustRefresh
    /\ CanRefresh(store, env)
    /\ posted' = RefreshToken(store, env)
    /\ \E r \in OkResponses, elapsed \in {0, 1} :
           /\ now + elapsed <= MaxNow
           /\ now' = now + elapsed
           /\ resp' = r
           /\ store' \in SaveOutcomes(store,
                                     NewStore(r, RefreshToken(store, env),
                                              now + elapsed))
           /\ ret' = [token |-> r.access_token, source |-> "refreshed"]
    /\ pc' = "slack_returned"
    /\ UNCHANGED env
    /\ UNCHANGED <<sanVars, copyVars, tz, normVars, calVars, pairVars>>

\* the next call of get_slack_access_token, at once or a second later
CallAgain ==
    /\ pc = "slack_returned"
    /\ \E elapsed \in {0, 1} :
           /\ now + elapsed <= MaxNow
           /\ now' = now + elapsed
    /\ pc' = "slack_idle"
    /\ UNCHANGED <<env, store, ret, posted, resp>>
    /\ UNCHANGED <<sanVars, copyVars, tz, normVars, calVars, pairVars>>

NextSlack ==
    \/ UseEnvToken
    \/ UseStoredToken
    \/ CredentialsMissing
    \/ PostRaises
    \/ RefreshNotOk
    \/ Refreshed
    \/ CallAgain

SpecSlack == InitSlack /\ [][NextSlack]_vars

(***************************************************************************)
(* Properties of gcal_events.                                              *)
(***************************************************************************)
\* the UTC instant an ISO-8601 string with an offset denotes
InstantOfIso(s) == s.wall - s.off

Finished == pc \in {"returned", "raised"}

\* res is the Calendar API's answer as the fallback path returns it: one
\* event per item, in the API's order, with the item's title (or the
\* placeholder), its dateTime or else its date
IsApiResult(res, items) ==
    /\ Len(res) = Len(items)
    /\ \A i \in 1..Len(items) :
           /\ res[i].title = (IF items[i].summary = "" THEN "(sem titulo)"
                              ELSE items[i].summary)
           /\ res[i].start = (IF items[i].start_dateTime # IsoNone
                              THEN items[i].start_dateTime ELSE items[i].start_date)
           /\ res[i].end = (IF items[i].end_dateTime # IsoNone
                            THEN items[i].end_dateTime ELSE items[i].end_date)

\* s1 and e1 of a component, as the loop body computes them
StartOf(c) == _norm(tz, c.dtstart)
EndOf(c) ==
    IF c.dtend.kind # "absent" THEN _norm(tz, c.dtend)
    ELSE PlusHours(StartOf(c), 1)

HasStart(c) == c.dtstart.kind \in {"date", "naive", "aware"}

\* C4: a VEVENT whose rrule is present but empty yields no occurrence, even
\* when its start and end overlap the window: a feed of such VEVENTs alone
\* resolves to the empty list
C4_EmptyRuleYieldsNothing ==
    (/\ pc = "returned"
     /\ primary = "ok"
     /\ \A i \in 1..Len(cal) :
            cal[i].rrule.present /\ cal[i].rrule.parts = {})
        => result = <<>>

\* C5: the list the ICS path returns is in ascending order of the instants
\* its starts denote, and events with equal start keep the order in which
\* the loop appended them (the order of their components in the feed)
C5_SortedByInstant ==
    (pc = "returned" /\ primary = "ok") =>
        /\ \A i, j \in 1..Len(result) :
               i < j => InstantOfIso(result[i].start) <= InstantOfIso(result[j].start)
        /\ \A k \in 1..Len(events) :
               LET SameStart(e) ==
                       InstantOfIso(e.start) = InstantOfIso(events[k].start)
               IN  SelectSeq(result, SameStart) = SelectSeq(events, SameStart)

\* C6: no call of gcal_events ends with an exception leaving it
C6_NeverRaises == pc # "raised"

\* C7: when the ICS source failed, at the fetch, in the parser or part-way
\* through the components, the list returned is exactly the fallback's
\* answer (empty without a token or on a non-2xx answer); nothing computed
\* from the feed before the failure is in it
C7_FallbackExclusive ==
    (pc = "returned" /\ primary \notin {"ok", "unset"}) =>
        IsApiResult(result, api_items)

C7_Witness ==
    /\ pc = "returned"
    /\ primary = "component_exception"
    /\ events # <<>>
    /\ api_items # <<>>
    /\ result # <<>>

\* C8: when the ICS source is unusable (unset, fetch error, non-2xx, wrong
\* content type, failure while parsing) and a token is configured, the
\* call sends one request to the Calendar API whose timeMin and timeMax
\* denote the instants of START and END, and a call that returns returns
\* that answer
C8_FallbackRequested ==
    (/\ Finished
     /\ primary \in {"unset", "fetch_exception", "http_error",
                     "bad_content_type", "parse_exception",
                     "component_exception"}
     /\ token # "")
        => /\ Len(api_req) = 1
           /\ InstantOfIso(api_req[1].timeMin) = Instant(tz, START)
           /\ InstantOfIso(api_req[1].timeMax) = Instant(tz, END)
           /\ pc = "returned" => IsApiResult(result, api_items)

C8_Witness ==
    /\ pc = "returned"
    /\ primary = "bad_content_type"
    /\ token # ""
    /\ Len(api_req) = 1
    /\ Len(result) = 2

\* a component with a missing start, with no recognized rule part, or with
\* a rule rrulestr rejects
Defective(c) ==
    \/ c.dtstart.kind = "absent"
    \/ /\ c.rrule.present
       /\ c.rrule.parts # {}
       /\ \/ FilterParts(c.rrule) = {}
          \/ rrulestr(FilterParts(c.rrule)) # "ok"

RECURSIVE ContributionsOf(_)
\* what the components of a feed append, one after the other
ContributionsOf(feed) ==
    IF feed = <<>> THEN <<>>
    ELSE ProcessComponent(tz, START, END, feed[1]).new \o ContributionsOf(Tail(feed))

Sound(c) == ~Defective(c)

\* C9: a defective component contributes nothing and does not end the
\* loop: a call that parsed the feed returns what the feed without its
\* defective components yields
C9_DefectSkipsOnlyItself ==
    (pc = "returned" /\ primary \in {"ok", "component_exception"}) =>
        result = SortByStart(ContributionsOf(SelectSeq(cal, Sound)))

\* C10: of a feed of non-recurring components, exactly those with
\* start <= window.end and end >= window.start, as instants, are returned
C10_SingleIffOverlap ==
    (/\ pc = "returned"
     /\ primary = "ok"
     /\ \A i \in 1..Len(cal) : HasStart(cal[i]) /\ ~cal[i].rrule.present)
        => Len(result) = Cardinality({i \in 1..Len(cal) :
                             /\ Instant(tz, StartOf(cal[i])) <= Instant(tz, END)
                             /\ Instant(tz, EndOf(cal[i])) >= Instant(tz, START)})

(***************************************************************************)
(* Properties of the expansion of one VEVENT.                              *)
(***************************************************************************)
\* a component the recurring branch expands: it has a start, a rule with
\* at least one part, and rrulestr accepts the recognized parts
Recurring(c) ==
    /\ HasStart(c)
    /\ RuleTruthy(c.rrule)
    /\ FilterParts(c.rrule) # {}
    /\ rrulestr(FilterParts(c.rrule)) = "ok"

\* hours from the first DTSTART of the feeds to past the last window
Horizon == 24 * (MaxDay + 2)

\* the instants of the series of c: its start and every period after it,
\* as far as COUNT allows
SeriesInstants(c) ==
    {Instant(tz, StartOf(c)) + k * Period(FilterParts(c.rrule)) :
         k \in {n \in 0..Horizon : InSeries(FilterParts(c.rrule), n)}}

\* the series instants in [window.start, window.end]
InWindow(c) ==
    {o \in SeriesInstants(c) : Instant(tz, START) <= o /\ o <= Instant(tz, END)}

StartInstants(res) == {InstantOfIso(res[i].start) : i \in 1..Len(res)}

ExpandedOne ==
    /\ pc = "returned"
    /\ primary = "ok"
    /\ Len(cal) = 1
    /\ Recurring(cal[1])

C12_DurationInvariant ==
    ExpandedOne =>
        \A i \in 1..Len(result) :
            InstantOfIso(result[i].end) - InstantOfIso(result[i].start)
                = Instant(tz, EndOf(cal[1])) - Instant(tz, StartOf(cal[1]))

(***************************************************************************)
(* Properties of the allow-list of rule parts.                             *)
(***************************************************************************)
\* the parts of a component's rule whose name is on the allow-list
KnownParts(c) == {p \in c.rrule.parts : p[1] \in valid_rrule_props}

\* the rule has parts, and none of them is on the allow-list
OnlyUnknown(c) == c.rrule.present /\ c.rrule.parts # {} /\ KnownParts(c) = {}

RECURSIVE StripUnknown(_)
\* the feed with every unknown part taken out of its rules, and without
\* the components whose rule has unknown parts only
StripUnknown(feed) ==
    IF feed = <<>> THEN <<>>
    ELSE IF OnlyUnknown(feed[1]) THEN StripUnknown(Tail(feed))
    ELSE IF feed[1].rrule.present /\ feed[1].rrule.parts # {}
         THEN <<[feed[1] EXCEPT !.rrule = Rule(KnownParts(feed[1]))]>>
                  \o StripUnknown(Tail(feed))
         ELSE <<feed[1]>> \o StripUnknown(Tail(feed))

\* C13: rule parts outside the allow-list are dropped without error: a
\* call that walked the feed returns what the feed with the unknown parts
\* removed returns, a component whose parts are all unknown contributing
\* nothing, and a call whose walk was ended by an exception met a
\* component whose recognized parts alone raise it
C13_UnknownPartsDropped ==
    /\ (pc = "returned" /\ primary = "ok") =>
           result = SortByStart(ContributionsOf(StripUnknown(cal)))
    /\ primary = "component_exception" =>
           \E i \in 1..Len(cal) :
               /\ KnownParts(cal[i]) # {}
               /\ rrulestr(KnownParts(cal[i])) \notin {"ok", "ValueError"}

C13_Witness ==
    /\ pc = "returned"
    /\ primary = "ok"
    /\ Len(cal) = 2
    /\ cal[1].rrule = Rule({<<"FREQ", "DAILY">>, <<"X-FOO", "1">>})
    /\ OnlyUnknown(cal[2])
    /\ Len(result) = 1

(***************************************************************************)
(* Properties of the normalizer as the loop body uses it.                  *)
(***************************************************************************)
\* the readings of TZ's clock around the days of the model
Readings == {MkDt(w, f) : w \in (0 - 24)..Horizon, f \in {0, 1}}

\* d is what the three-way branch makes of the property value v: midnight
\* of the date on TZ's clock for a date-only value, the reading in TZ of
\* the instant the value denotes when read as UTC for a naive datetime, the
\* reading in TZ of the instant the value denotes for an aware datetime
NormalizedAs(v, d) ==
    CASE v.kind = "date" -> d = MkDt(v.wall, 0)
      [] v.kind = "naive" -> Instant(tz, d) = v.wall
      [] v.kind = "aware" -> Instant(tz, d) = v.wall - v.off
      [] OTHER -> FALSE

TitleOf(c) == IF c.summary = "" THEN "(sem titulo)" ELSE c.summary

\* what a component yields once its start and end have been read as s and e
YieldsFrom(c, s, e) ==
    IF RuleTruthy(c.rrule)
    THEN Expand(tz, START, END, TitleOf(c), s, e, c.rrule).new
    ELSE Single(tz, START, END, TitleOf(c), s, e).new

\* C14: the start and the end of a component, single or recurring, enter
\* the window test and the expansion as the three-way branch reads them
\* (an absent end being one hour after the start)
C14_ThreeWayBranch ==
    (/\ pc = "returned"
     /\ primary = "ok"
     /\ Len(cal) = 1
     /\ HasStart(cal[1]))
        => \E s \in Readings :
               /\ NormalizedAs(cal[1].dtstart, s)
               /\ \E e \in Readings :
                      /\ IF cal[1].dtend.kind = "absent"
                         THEN e = PlusHours(s, 1)
                         ELSE NormalizedAs(cal[1].dtend, e)
                      /\ result = SortByStart(YieldsFrom(cal[1], s, e))

C14_Witness ==
    /\ pc = "returned"
    /\ primary = "ok"
    /\ Len(cal) = 1
    /\ cal[1].dtstart.kind = "date"
    /\ cal[1].dtend.kind = "date"
    /\ cal[1].rrule = Rule({<<"FREQ", "DAILY">>})
    /\ tz = SaoPaulo
    /\ Len(result) = 1
    /\ result[1].start = Iso(START.wall, 0 - 3)

(***************************************************************************)
(* Properties of the sanitizer's filter.                                   *)
(***************************************************************************)
\* the bytes before the first ":" of the line, trimmed, are decimal digits
DigitNamed(line) ==
    \E k \in 1..Len(line) :
        /\ line[k] = COLON
        /\ \A j \in 1..(k - 1) : line[j] # COLON
        /\ LET name == Strip(SubSeq(line, 1, k - 1))
           IN  name # <<>> /\ \A i \in 1..Len(name) : name[i] \in Digits

\* the lines of the bytes the sanitizer returned
OutputLines == IF out1 = <<>> THEN <<>> ELSE Split(out1, LF)

InSeq(x, ls) == \E i \in 1..Len(ls) : ls[i] = x

\* C15: no line of the sanitizer's output has a digit-only property name,
\* whatever surrounds it in the input, and every logical line with a colon
\* and a name that is not digit-only (and not blank) is in the output
C15_NumericRemoved ==
    pc # "san_start" =>
        /\ \A i \in 1..Len(OutputLines) : ~DigitNamed(OutputLines[i])
        /\ \A i \in 1..Len(UnfoldedLines(raw)) :
               LET line == UnfoldedLines(raw)[i]
               IN  (HasColon(line) /\ ~IsBlank(line) /\ ~DigitNamed(line))
                       => InSeq(line, OutputLines)

C15_Witness ==
    /\ pc = "san_once"
    /\ \E i \in 1..Len(UnfoldedLines(raw)) : DigitNamed(UnfoldedLines(raw)[i])
    /\ \E i \in 1..Len(UnfoldedLines(raw)) :
           /\ HasColon(UnfoldedLines(raw)[i])
           /\ ~DigitNamed(UnfoldedLines(raw)[i])
    /\ Len(OutputLines) = 1

(***************************************************************************)
(* Properties of the unfolding.                                            *)
(***************************************************************************)
RECURSIVE Unsplit(_)
\* the bytes without their fold markers (a line ending followed by one
\* space or tab): the unsplit form of a folded line
Unsplit(s) ==
    IF s = <<>> THEN <<>>
    ELSE IF Len(s) >= 3 /\ s[1] = CR /\ s[2] = LF /\ s[3] \in {SP, HT}
         THEN Unsplit(SubSeq(s, 4, Len(s)))
    ELSE IF Len(s) >= 2 /\ s[1] \in {CR, LF} /\ s[2] \in {SP, HT}
         THEN Unsplit(SubSeq(s, 3, Len(s)))
    ELSE <<s[1]>> \o Unsplit(Tail(s))

\* the number of fold markers of each line ending in the bytes
CountOf(s, e) ==
    Cardinality({i \in 1..(Len(s) - Len(e)) :
                     /\ SubSeq(s, i, i + Len(e) - 1) = e
                     /\ s[i + Len(e)] \in {SP, HT}
                     /\ (e = <<LF>> /\ i > 1) => s[i - 1] # CR})

\* C16: a property line written on any run of continuation lines, with
\* LF, CR or CRLF line endings, sanitizes to what its unsplit form
\* sanitizes to: the one logical line made of the pieces without their
\* markers, or nothing when that line has a digit-only name
C16_Unfolds ==
    pc # "san_start" =>
        /\ lines1 = SanitizedLines(Unsplit(raw))
        /\ out1 = _sanitize_ics(Unsplit(raw))
        /\ lines1 \in {<<>>, <<Unsplit(raw)>>}
        /\ lines1 = <<>> => DigitNamed(Unsplit(raw))

C16_Witness ==
    /\ pc = "san_once"
    /\ CountOf(raw, <<LF>>) = 1
    /\ CountOf(raw, <<CR>>) = 1
    /\ CountOf(raw, <<CR, LF>>) = 1
    /\ lines1 = <<Unsplit(raw)>>
    /\ Len(Unsplit(raw)) >= 4

\* a logical line that is neither blank nor digit-named
Survives(line) == ~IsBlank(line) /\ ~DigitNamed(line)

\* C17: the sanitizer's output is the unfolded logical lines that are
\* neither blank nor digit-named, each unchanged and in its original
\* order, joined by line feeds: a discarded line takes nothing else with it
C17_OnlyDiscardsItself ==
    pc # "san_start" =>
        /\ lines1 = SelectSeq(UnfoldedLines(raw), Survives)
        /\ out1 = Join(SelectSeq(UnfoldedLines(raw), Survives), LF)

C17_Witness ==
    /\ pc = "san_once"
    /\ Len(UnfoldedLines(raw)) = 2
    /\ ~Survives(UnfoldedLines(raw)[1])
    /\ lines1 = <<UnfoldedLines(raw)[2]>>
    /\ out1 = UnfoldedLines(raw)[2]

(***************************************************************************)
(* Properties of the sources taken together.                               *)
(***************************************************************************)
\* the call fetched the feed and handed it to _parse_ics
Parsed == primary \in {"ok", "parse_exception", "component_exception"}

\* C18: a feed whose bytes sanitize to nothing is no error downstream: it
\* stands for a calendar without components, and the call returns the empty
\* list
C18_EmptyFeedNoError ==
    (Finished /\ Parsed /\ sanitize_ics(raw) = <<>>) =>
        /\ pc = "returned"
        /\ result = <<>>

\* C19: when the ICS source is unset or failed, and there is no token or
\* the Calendar API answered non-2xx, the call returns the empty list
C19_NeitherUsable ==
    (/\ Finished
     /\ primary \notin {"pending", "ok"}
     /\ token = "" \/ api_resp = "not_ok")
        => /\ pc = "returned"
           /\ result = <<>>

C19_Witness ==
    /\ pc = "returned"
    /\ primary = "component_exception"
    /\ events # <<>>
    /\ api_resp = "not_ok"
    /\ result = <<>>

(***************************************************************************)
(* Properties of COUNT.                                                    *)
(***************************************************************************)
\* C20: COUNT = n bounds the series from its start: no occurrence emitted
\* for a component starts later than the n-th instant of its series, and
\* no more than n are emitted, in whichever window
C20_CountFromSeriesStart ==
    ExpandedOne =>
        \A p \in FilterParts(cal[1].rrule) :
            p[1] = "COUNT" =>
                /\ Len(result) <= CountValue(p[2])
                /\ \A i \in 1..Len(result) :
                       InstantOfIso(result[i].start)
                           <= Instant(tz, StartOf(cal[1]))
                                  + (CountValue(p[2]) - 1)
                                        * Period(FilterParts(cal[1].rrule))

\* a daily series of two from day 0 has ended before the window of day 2
C20_Witness ==
    /\ ExpandedOne
    /\ cal[1].rrule = Rule({<<"FREQ", "DAILY">>, <<"COUNT", "2">>})
    /\ cal[1].dtstart = AwareValue(3, 0)
    /\ cal[1].dtend = AwareValue(5, 0)
    /\ START = MkDt(48, 0)
    /\ result = <<>>

(***************************************************************************)
(* One meeting over one day, end to end.                                   *)
(***************************************************************************)
\* the feed of the 14:00Z meeting has been resolved over day 0 of a zone
\* three hours behind UTC all year
StandupResolved ==
    /\ pc = "returned"
    /\ primary = "ok"
    /\ tz = SaoPaulo
    /\ START = MkDt(0, 0)
    /\ END = MkDt(23, 0)
    /\ cal = <<Standup1400Z>>

\* C21: the feed with the one-hour meeting at 14:00Z, resolved over day 0
\* from 00:00 to 23:59 at UTC-3, yields exactly one occurrence, titled
\* Standup, that starts at 11:00 -03:00 (and ends at 12:00 -03:00)
C21_StandupScenario ==
    StandupResolved =>
        result = <<Event("Standup", Iso(11, -3), Iso(12, -3))>>

C21_Witness == StandupResolved /\ Len(result) = 1

(***************************************************************************)
(* The zone of what the ICS path emits.                                    *)
(***************************************************************************)
\* an isoformat() string is written in zone z: its UTC offset is the one z
\* gives to its wall-clock time (in a repeated hour, either of the two)
ReadingOf(z, x) ==
    /\ x.form = "datetime"
    /\ \E f \in {0, 1} : x.off = utcoffset(z, MkDt(x.wall, f))

C23_DefaultEndOneHourLater ==
    (pc = "returned" /\ primary = "ok" /\ Len(cal) = 1
        /\ cal[1].dtend.kind = "absent") =>
        \A i \in 1..Len(result) :
            InstantOfIso(result[i].end) = InstantOfIso(result[i].start) + 1

(***************************************************************************)
(* What is returned lies in the window.                                    *)
(***************************************************************************)
\* C25: every occurrence the ICS path returns, single or expanded, overlaps
\* the window: it starts no later than the window ends and ends no earlier
\* than the window starts
C25_ReturnedOverlapsWindow ==
    (pc = "returned" /\ primary = "ok") =>
        \A i \in 1..Len(result) :
            /\ InstantOfIso(result[i].start) <= Instant(tz, END)
            /\ InstantOfIso(result[i].end) >= Instant(tz, START)

(***************************************************************************)
(* The copies of the sanitizer.                                            *)
(***************************************************************************)
\* C27: for every input the module-level _sanitize_ics, the sanitize_ics
\* nested in _parse_ics and the sanitize_ics of tests/test_calendar.py
\* return the same bytes
C27_CopiesAgree ==
    pc = "copies_done" => out1 = sanitized /\ sanitized = test_out

\* a line folded after CRLF with a tab: every copy joins its two pieces
C27_Witness ==
    /\ pc = "copies_done"
    /\ raw = <<"a", CR, LF, HT, "a">>
    /\ out1 = <<"a", "a">>
    /\ test_out = <<"a", "a">>

(***************************************************************************)
(* The primary source, once it has answered.                               *)
(***************************************************************************)
\* C26: when the ICS source was read (2xx and text/calendar, or a local
\* file) and parsed without raising, the call returns what the ICS path
\* collected, sorted, even if that is nothing, and has sent no request to
\* the Calendar API; and no call reads the ICS source or asks the Calendar
\* API more than once
C26_PrimaryResultNoFallback ==
    /\ (Finished /\ primary = "ok") =>
           /\ pc = "returned"
           /\ result = SortByStart(events)
           /\ api_req = <<>>
           /\ api_resp = "none"
    /\ Len(ics_req) <= 1
    /\ Len(api_req) <= 1

\* a feed without events, read once, is returned as the empty list although
\* a token for the Calendar API is set
C26_Witness ==
    /\ pc = "returned"
    /\ primary = "ok"
    /\ token # ""
    /\ Len(ics_req) = 1
    /\ result = <<>>
    /\ api_req = <<>>

(***************************************************************************)
(* Calls do not see each other.                                            *)
(***************************************************************************)
RECURSIVE Collected(_, _, _, _)
\* what the loop has appended after the components comps, none of which
\* raised, for the window from w_start to w_end in zone z
Collected(z, w_start, w_end, comps) ==
    IF comps = <<>> THEN <<>>
    ELSE ProcessComponent(z, w_start, w_end, comps[1]).new
             \o Collected(z, w_start, w_end, Tail(comps))

\* two calls were given the same feed and the same window
SameInputs(c, d) == c.cal = d.cal /\ c.START = d.START /\ c.END = d.END

CallReturns == pc = "slack_idle" /\ pc' = "slack_returned"

\* the stored token is one the code may return at time t
Usable(st, t) == st.access_token # "" /\ st.expires_at > t + ExpiryMargin

\* C28: a call returns the env token whenever SLACK_USER_TOKEN is set; it
\* returns the stored access token only when SLACK_USER_TOKEN is unset and
\* the stored expires_at is more than 60 seconds after the current time;
\* and it goes on to the refresh only when neither is the case
C28_Precedence ==
    [][CallReturns =>
          /\ env.SLACK_USER_TOKEN # "" =>
                 ret' = [token |-> env.SLACK_USER_TOKEN, source |-> "env"]
          /\ ret'.source = "env" => env.SLACK_USER_TOKEN # ""
          /\ ret'.source = "store" =>
                 /\ env.SLACK_USER_TOKEN = ""
                 /\ ret'.token = store.access_token
                 /\ store.access_token # ""
                 /\ store.expires_at > now + ExpiryMargin
          /\ ret'.source \in {"missing", "refresh-failed", "refreshed"} =>
                 /\ env.SLACK_USER_TOKEN = ""
                 /\ ~Usable(store, now)]_vars

\* a stored token that expires in exactly 60 seconds was passed over
C28_Witness ==
    /\ pc = "slack_returned"
    /\ now = 1
    /\ store.access_token = "xoxe-old"
    /\ store.expires_at = now + ExpiryMargin
    /\ ret.source = "refresh-failed"

\* C29: the store changes only in a call that returns "refreshed": a call
\* that returns the env token, a stored token, "missing" or
\* "refresh-failed" leaves the store as it was, the last two with a None
\* token; and no other step touches the store
C29_StoreWrittenByRefreshOnly ==
    [][/\ store' # store => CallReturns /\ ret'.source = "refreshed"
       /\ CallReturns =>
              /\ ret'.source
                     \in {"env", "store", "missing", "refresh-failed",
                          "refreshed"}
              /\ ret'.source \in {"missing", "refresh-failed"} =>
                     ret'.token = ""]_vars

\* a refused refresh has left the stored tokens in place
C29_Witness ==
    /\ pc = "slack_returned"
    /\ ret = [token |-> "", source |-> "refresh-failed"]
    /\ posted = "r-old"
    /\ store.access_token = "xoxe-old"
    /\ store.refresh_token = "r-old"

\* the refresh token the code is to send: the stored one if there is one,
\* else SLACK_REFRESH_TOKEN
Preferred(st, e) ==
    IF st.refresh_token # "" THEN st.refresh_token ELSE e.SLACK_REFRESH_TOKEN

\* what the store is to hold after a refresh answered by r at time t
Holds(st, r, sent, t) ==
    /\ st.access_token = r.access_token
    /\ st.expires_at =
           t + (IF r.has_expires_in THEN r.expires_in ELSE DefaultExpiresIn)
    /\ st.refresh_token =
           (IF r.refresh_token # "" THEN r.refresh_token ELSE sent)

\* C30 as stated: after every call that returns "refreshed" the store
\* holds the returned access token, expires_at = the time of the refresh
\* + expires_in (12 hours if the answer has none), and the answer's
\* refresh token or else the one sent; and every refresh sends the stored
\* refresh token if there is one, else SLACK_REFRESH_TOKEN
C30_StoreHoldsRefresh ==
    [][(CallReturns /\ ret'.source = "refreshed") =>
          /\ posted' = Preferred(store, env)
          /\ ret'.token = resp'.access_token
          /\ Holds(store', resp', posted', now')]_vars

\* C30 as amended: a call that returns "refreshed" has sent the stored
\* refresh token if there is one, else SLACK_REFRESH_TOKEN, returns the
\* answer's access token and hands _save_store that token, expires_at =
\* the time of the refresh + expires_in (12 hours if the answer has none)
\* and the answer's refresh token or else the one sent; the store holds
\* them if the write succeeded, and otherwise, the error being swallowed,
\* is as it was before the call or reads as empty
C30_StoreHoldsRefreshIfSaved ==
    [][(CallReturns /\ ret'.source = "refreshed") =>
          /\ posted' = Preferred(store, env)
          /\ ret'.token = resp'.access_token
          /\ \/ Holds(store', resp', posted', now')
             \/ store' = store
             \/ store' = EmptyStore]_vars

\* a second refresh has sent the refresh token the first one stored,
\* although SLACK_REFRESH_TOKEN is set, and the store holds its outcome
C30_Witness ==
    /\ pc = "slack_returned"
    /\ ret.source = "refreshed"
    /\ env.SLACK_REFRESH_TOKEN = "r-env"
    /\ posted = "r-new"
    /\ resp.refresh_token = ""
    /\ Holds(store, resp, posted, now)
====
